---- MODULE Spec2Model ----
(***************************************************************************)
(* A state-machine model of gil's session loop (src/src/terminal.rs) and   *)
(* of the history provider it pulls from (src/src/git.rs).                 *)
(*                                                                         *)
(* One behaviour is one session: App::run_app's loop is cut at the places  *)
(* where it reads the outside world (terminal size, revwalk, input), and   *)
(* pc names the place the loop is at.                                      *)
(*                                                                         *)
(* Option<T> is modelled as a sequence of length <= 1: None is << >> and   *)
(* Some(x) is <<x>>.  Indices are 0-based as in the source; a Vec is a     *)
(* TLA+ sequence, so Vec index i is sequence index i + 1.                  *)
(***************************************************************************)
EXTENDS Integers, Sequences, FiniteSets, TLC

(***************************************************************************)
(* Bounds of the model.                                                    *)
(***************************************************************************)
\* longest backing history (number of commits the revwalk can yield)
MaxL == 3
\* terminal heights range over MinHeight..MaxHeight; with fewer than two
\* rows the list pane (frame height - 1) is empty
MinHeight == 2
MaxHeight == 4
\* how many calls of next_commit may fail in one session
MaxFails == 1
\* largest total scroll-down request the history variable scroll_req follows
MaxReq == 3

\* largest cursor index and largest bound fn scroll is called with on its own
MaxIndex == 3

\* u16::MAX, the width of message_scroll and FileView::scroll
U16Max == 65535
\* i16::MIN and i16::MAX, the ends of fn scroll's `amount`
I16Min == -32768
I16Max == 32767

Heights == MinHeight..MaxHeight

(***************************************************************************)
(* Option<T>                                                               *)
(***************************************************************************)
None == << >>
Some(x) == <<x>>
IsSome(o) == o # None
Unwrap(o) == o[1]
UnwrapOrDefault(o) == IF o = None THEN 0 ELSE o[1]

Min(a, b) == IF a < b THEN a ELSE b
Max(a, b) == IF a < b THEN b ELSE a

IsPrefix(s, t) == /\ Len(s) <= Len(t)
                  /\ \A i \in 1..Len(s) : s[i] = t[i]

(***************************************************************************)
(* The repository behind the session.  A commit is identified by its       *)
(* place in the revwalk's order (1 is the starting commit); everything     *)
(* next_commit computes from a commit is a function of that identity.      *)
(***************************************************************************)
\* CommitInfo::num_files (= number of deltas of CommitInfo::patch)
NumFiles(id) == id % 3
\* lines of the wrapped commit message (Paragraph::line_count)
MsgLines(id) == id
\* whether delta f of the commit has status Deleted (or no new path): the
\* second commit deletes the first of its two files
Deleted(id, f) == id = 2 /\ f = 0
\* Text::height of git::show's output for delta f of the commit
FileHeight(id, f) == 2 + f
\* messages a git2::Error of the provider can carry
ErrMsgs == {"object not found"}

Keys == {"j", "k", "d", "u", "g", "1", "2", "3", "h", "x", "q", "n", "p",
         "Enter", "Esc", "Down", "Up", "PageDown", "PageUp", "Home", "other"}

VARIABLES
    L,            \* length of the backing history (what the revwalk can yield)
    show_only,    \* App::show_only
    height,       \* the terminal's height, as term.size() reports it
    revwalk,      \* App::revwalk: [pos |-> number of commits consumed]
    commit_infos, \* AppRenderState::commit_infos (the history buffer)
    log_mode,     \* AppRenderState::log_mode
    log_state,    \* AppRenderState::log_state: [selected |-> Option<usize>]
    commit_view,  \* AppRenderState::commit_view: Option<CommitView>
    popup,        \* AppRenderState::popup: Option<Text>
    needed,       \* run_app's local `needed`
    fetched,      \* the result of the latest next_commit call
    event,        \* the kind of the latest event event::read() returned
    fails,        \* how many next_commit calls have failed
    pc,           \* where the session is
    scroll_req,   \* history variable: Some(k) while every key so far was a
                  \* scroll-down in the log, k the sum of the requested
                  \* amounts, with no failure and no resize; None otherwise
    scroll_args,  \* the arguments [amount, max] of a call of fn scroll made
                  \* on its own (ScrollSpec); the session leaves it alone
    opened_from   \* history variable: Some of the log cursor, the log mode
                  \* and the buffer as they were when Enter last opened the
                  \* show view, until a key is next handled in the log view;
                  \* None otherwise

vars == <<L, show_only, height, revwalk, commit_infos, log_mode, log_state,
          commit_view, popup, needed, fetched, event, fails, pc, scroll_req,
          scroll_args, opened_from>>

Init ==
    /\ L \in 1..MaxL
    /\ show_only \in BOOLEAN
    /\ height \in Heights
    /\ revwalk = [pos |-> 0]
    /\ commit_infos = << >>
    /\ log_mode = "Short"
    /\ log_state = [selected |-> None]
    /\ commit_view = None
    /\ popup = None
    /\ needed = 0
    /\ fetched = [tag |-> "NotCalled", msg |-> ""]
    /\ event = "NoEvent"
    /\ fails = 0
    /\ pc = "top"
    /\ scroll_req = IF show_only THEN None ELSE Some(0)
    /\ scroll_args = [amount |-> 0, max |-> None]
    /\ opened_from = None


(***************************************************************************)
(* The history provider: git.rs next_commit over App::revwalk.             *)
(***************************************************************************)
\* revwalk.next(): the commit the walk yields next, None once it is over
RevwalkNext(rw) == IF rw.pos < L THEN Some(rw.pos + 1) ELSE None

\* the walk after it has yielded one commit
Advance(rw) == [pos |-> rw.pos + 1]

\* a variant of Push that puts the record in front
PushFront(v, x) == <<x>> \o v

\* Vec::push
Push(v, x) == Append(v, x)

\* a variant of Needed that leaves the log cursor out of the target
NeededNoCursor == IF show_only THEN 1 ELSE height \div 2

\* a variant of Needed that fills a window of commits in show mode too
NeededIgnoreShow == (height \div 2) + UnwrapOrDefault(log_state.selected)

\* run_app's `needed`: 1 in show mode, else commits_per_window + the cursor
Needed ==
    IF show_only
    THEN 1
    ELSE LET commits_per_window == height \div 2
         IN  commits_per_window + UnwrapOrDefault(log_state.selected)

\* the `while` condition of the fill loop
LoopTest(infos, n) == Len(infos) < n

\* the top of a loop iteration: compute `needed`, enter the fill loop
Top ==
    /\ pc = "top"
    /\ needed' = Needed
    /\ pc' = IF LoopTest(commit_infos, needed') THEN "fetch" ELSE "show"
    /\ UNCHANGED <<opened_from, scroll_args, L, show_only, height, revwalk, commit_infos, log_mode,
                   log_state, commit_view, popup, fetched, event, fails,
                   scroll_req>>

\* next_commit returned Ok(Some(ci)): push it and test the loop again
FetchSome ==
    /\ pc = "fetch"
    /\ IsSome(RevwalkNext(revwalk))
    /\ commit_infos' = Push(commit_infos, Unwrap(RevwalkNext(revwalk)))
    /\ revwalk' = Advance(revwalk)
    /\ fetched' = [tag |-> "Some", msg |-> ""]
    /\ pc' = IF LoopTest(commit_infos', needed) THEN "fetch" ELSE "show"
    /\ UNCHANGED <<opened_from, scroll_args, L, show_only, height, log_mode, log_state, commit_view,
                   popup, needed, event, fails, scroll_req>>

\* a variant of FetchNone in which the walk starts over once it has ended
FetchNoneRewind ==
    /\ pc = "fetch"
    /\ RevwalkNext(revwalk) = None
    /\ fetched' = [tag |-> "None", msg |-> ""]
    /\ revwalk' = [pos |-> 0]
    /\ pc' = "show"
    /\ UNCHANGED <<opened_from, scroll_args, L, show_only, height, commit_infos, log_mode, log_state,
                   commit_view, popup, needed, event, fails, scroll_req>>

\* a variant of FetchNone that reports the end of the walk in a popup
FetchNoneAsError ==
    /\ pc = "fetch"
    /\ RevwalkNext(revwalk) = None
    /\ fetched' = [tag |-> "None", msg |-> ""]
    /\ popup' = Some("no more commits")
    /\ pc' = "show"
    /\ UNCHANGED <<opened_from, scroll_args, L, show_only, height, revwalk, commit_infos, log_mode,
                   log_state, commit_view, needed, event, fails, scroll_req>>

\* next_commit returned Ok(None): the walk is over, leave the fill loop
FetchNone ==
    /\ pc = "fetch"
    /\ RevwalkNext(revwalk) = None
    /\ fetched' = [tag |-> "None", msg |-> ""]
    /\ pc' = "show"
    /\ UNCHANGED <<opened_from, scroll_args, L, show_only, height, revwalk, commit_infos, log_mode,
                   log_state, commit_view, popup, needed, event, fails,
                   scroll_req>>

\* a variant of FetchErr that goes on with the fill loop after the failure
FetchErrContinue ==
    /\ pc = "fetch"
    /\ IsSome(RevwalkNext(revwalk))
    /\ fails < MaxFails
    /\ \E msg \in ErrMsgs, consumed \in BOOLEAN :
          /\ fetched' = [tag |-> "Err", msg |-> msg]
          /\ popup' = Some(msg)
          /\ revwalk' = IF consumed THEN Advance(revwalk) ELSE revwalk
    /\ fails' = fails + 1
    /\ pc' = "fetch"
    /\ UNCHANGED <<opened_from, scroll_args, L, show_only, height, commit_infos, log_mode, log_state,
                   commit_view, needed, event, scroll_req>>

\* next_commit returned Err(err): the popup takes err.message() and the fill
\* loop is left.  The error is either revwalk.next()'s own (git.rs line 39),
\* or a later step's (lines 41-59) after line 37 has consumed the commit.
FetchErr ==
    /\ pc = "fetch"
    /\ IsSome(RevwalkNext(revwalk))
    /\ fails < MaxFails
    /\ \E msg \in ErrMsgs, consumed \in BOOLEAN :
          /\ fetched' = [tag |-> "Err", msg |-> msg]
          /\ popup' = Some(msg)
          /\ revwalk' = IF consumed THEN Advance(revwalk) ELSE revwalk
    /\ fails' = fails + 1
    /\ pc' = "show"
    /\ scroll_req' = None
    /\ UNCHANGED <<opened_from, scroll_args, L, show_only, height, commit_infos, log_mode, log_state,
                   commit_view, needed, event>>


(***************************************************************************)
(* Cursor and scroll arithmetic.                                           *)
(***************************************************************************)
Clamp(x, lo, hi) == IF x < lo THEN lo ELSE IF x > hi THEN hi ELSE x

\* usize::saturating_add_signed (the upper end, usize::MAX, is out of the
\* reach of any index of the model)
SatAddSigned(i, a) == IF i + a < 0 THEN 0 ELSE i + a

\* u16::saturating_add_signed, u16::saturating_add, u16::saturating_sub
SatAddSignedU16(i, a) == Clamp(i + a, 0, U16Max)

\* a variant of Scroll that adds the amount without saturating at 0
ScrollWrapping(selected, amount, max) ==
    IF selected = None
    THEN 0
    ELSE LET new_index == Unwrap(selected) + amount
         IN  IF max = None
             THEN new_index
             ELSE Min(new_index, Unwrap(max))

\* fn scroll: the index it selects and returns
Scroll(selected, amount, max) ==
    IF selected = None
    THEN 0
    ELSE LET new_index == SatAddSigned(Unwrap(selected), amount)
         IN  IF max = None
             THEN Max(new_index, 0)
             ELSE Clamp(new_index, 0, Unwrap(max))

\* a variant of ScrollFile that does not clamp the offset to the content
ScrollFileNoMax(file_view, h, amount) ==
    IF file_view = None
    THEN file_view
    ELSE LET fv == Unwrap(file_view)
         IN  Some([fv EXCEPT !.scroll = SatAddSignedU16(fv.scroll, amount)])

\* fn scroll_file, on Option<FileView>
ScrollFile(file_view, h, amount) ==
    IF file_view = None
    THEN file_view
    ELSE LET fv == Unwrap(file_view)
             content_height == Min(FileHeight(fv.contents[1], fv.contents[2]), U16Max)
             max == SatAddSignedU16(content_height, 0 - (h \div 3))
         IN  Some([fv EXCEPT !.scroll = Clamp(SatAddSignedU16(fv.scroll, amount), 0, max)])

(***************************************************************************)
(* Opening a commit and a file of it.                                      *)
(***************************************************************************)
\* CommitView::show_file's FileView for delta f of commit id: none for a
\* deleted file, else git::show's text (named by the commit and the delta)
ShowFile(id, f) ==
    IF Deleted(id, f)
    THEN None
    ELSE Some([contents |-> <<id, f>>, scroll |-> 0])

\* a variant of ShowCommit that opens the commit without selecting and
\* showing its first file
ShowCommitNoFile(infos, index) ==
    [view |-> [index |-> index, message_scroll |-> 0,
               files_state |-> None, file_view |-> None],
     ok |-> index < Len(infos)]

\* a variant of ShowCommit that selects and shows the first file without
\* asking whether the commit has one
ShowCommitAlwaysFile(infos, index) ==
    LET fresh == [index |-> index, message_scroll |-> 0,
                  files_state |-> None, file_view |-> None]
    IN  IF index >= Len(infos)
        THEN [view |-> fresh, ok |-> FALSE]
        ELSE [view |-> [fresh EXCEPT !.files_state = Some(0),
                                     !.file_view = ShowFile(infos[index + 1], 0)],
              ok |-> TRUE]

\* App::show_commit(index): [view |-> the CommitView it leaves, ok |-> FALSE
\* when commit_infos[index] is out of bounds and the call panics]
ShowCommit(infos, index) ==
    LET fresh == [index |-> index, message_scroll |-> 0,
                  files_state |-> None, file_view |-> None]
    IN  IF index >= Len(infos)
        THEN [view |-> fresh, ok |-> FALSE]
        ELSE LET id == infos[index + 1]
             IN  IF NumFiles(id) > 0
                 THEN [view |-> [fresh EXCEPT !.files_state = Some(0),
                                              !.file_view = ShowFile(id, 0)],
                       ok |-> TRUE]
                 ELSE [view |-> fresh, ok |-> TRUE]

\* the automatic open of show mode, after the fill
AutoShow ==
    /\ pc = "show"
    /\ IF show_only /\ commit_view = None
       THEN LET r == ShowCommit(commit_infos, 0)
            IN  /\ commit_view' = Some(r.view)
                /\ pc' = IF r.ok THEN "draw" ELSE "panicked"
       ELSE /\ commit_view' = commit_view
            /\ pc' = "draw"
    /\ UNCHANGED <<opened_from, scroll_args, L, show_only, height, revwalk, commit_infos, log_mode,
                   log_state, popup, needed, fetched, event, fails, scroll_req>>

(***************************************************************************)
(* fn ui: what drawing a frame does to the render state.                   *)
(***************************************************************************)
\* a variant of ListRender that puts the selection on the first item
ListRenderFirst(selected, n) == IF n = 0 THEN None ELSE Some(0)

\* the List widget's stateful render over n items (line 411 for the log,
\* line 469 for the files): the widget, of the tui library, selects nothing
\* when the list is empty and moves a selection past the end to the last
\* item.  The pane is taken to have at least one row (MinHeight).
ListRender(selected, n) ==
    IF n = 0
    THEN None
    ELSE IF selected # None /\ Unwrap(selected) >= n
         THEN Some(n - 1)
         ELSE selected

\* the first of the two panes a 50/50 Layout splits n rows into
HalfFirst(n) == (n + 1) \div 2

\* height of the message pane (message_and_files[0]) for terminal height h
MessagePaneHeight(h, horizontal) ==
    LET area_height == h - 1
    IN  IF horizontal
        THEN HalfFirst(area_height)
        ELSE HalfFirst(HalfFirst(area_height))

\* height of the file pane (commit_and_patch[1]) for terminal height h
FilePaneHeight(h, horizontal) ==
    LET area_height == h - 1
    IN  IF horizontal
        THEN area_height
        ELSE area_height - HalfFirst(area_height)

\* the CommitView after the show view is drawn
UiCommitView(cv, infos, h, horizontal) ==
    LET id == infos[cv.index + 1]
        line_count == Min(MsgLines(id), U16Max)
        max_scroll == SatAddSignedU16(line_count, 0 - MessagePaneHeight(h, horizontal))
    IN  [cv EXCEPT !.message_scroll = Min(cv.message_scroll, max_scroll),
                   !.files_state = ListRender(cv.files_state, NumFiles(id))]

\* self.term.draw(|frame| ui(frame, &mut self.state))
Draw ==
    /\ pc = "draw"
    /\ \E horizontal \in BOOLEAN :
          IF commit_view = None
          THEN /\ log_state' = [selected |-> ListRender(log_state.selected,
                                                        Len(commit_infos))]
               /\ commit_view' = commit_view
               /\ pc' = "read"
          ELSE /\ log_state' = log_state
               /\ IF Unwrap(commit_view).index < Len(commit_infos)
                  THEN /\ commit_view' = Some(UiCommitView(Unwrap(commit_view),
                                                commit_infos, height, horizontal))
                       /\ pc' = "read"
                  ELSE /\ commit_view' = commit_view
                       /\ pc' = "panicked"
    /\ UNCHANGED <<opened_from, scroll_args, L, show_only, height, revwalk, commit_infos, log_mode,
                   popup, needed, fetched, event, fails, scroll_req>>


(***************************************************************************)
(* fn handle_input.  A handler maps the render state to the render state   *)
(* it leaves and to how it returns: "true" and "false" are Ok(true) and    *)
(* Ok(false), "panic" is a panic inside the handler, "exec" is the process *)
(* replaced by `git log`.                                                  *)
(***************************************************************************)
RenderState ==
    [log_mode |-> log_mode, log_state |-> log_state,
     commit_view |-> commit_view, popup |-> popup, ret |-> "true"]

\* a variant of FileStep that shows the file only when the cursor moved
FileStepKeepOnClamp(st, amount, overflow_checks) ==
    LET cv == Unwrap(st.commit_view)
        id == commit_infos[cv.index + 1]
    IN  IF NumFiles(id) = 0
        THEN [st EXCEPT !.ret = "panic"]
        ELSE LET max == NumFiles(id) - 1
                 index == Scroll(cv.files_state, amount, Some(max))
             IN  IF cv.files_state = Some(index)
                 THEN st
                 ELSE [st EXCEPT !.commit_view =
                                    Some([cv EXCEPT !.files_state = Some(index),
                                                    !.file_view = ShowFile(id, index)])]

\* the `n` and `p` keys of the show view: move the file cursor by amount and
\* show that file.  With num_files = 0, `num_files - 1` overflows: a build
\* with overflow checks panics there, one without them goes on with
\* max = usize::MAX and panics in show_file's get_delta(index).unwrap()
FileStep(st, amount, overflow_checks) ==
    LET cv == Unwrap(st.commit_view)
        id == commit_infos[cv.index + 1]
    IN  IF NumFiles(id) = 0
        THEN IF overflow_checks
             THEN [st EXCEPT !.ret = "panic"]
             ELSE LET index == Scroll(cv.files_state, amount, None)
                  IN  [st EXCEPT !.commit_view =
                                     Some([cv EXCEPT !.files_state = Some(index),
                                                     !.file_view = None]),
                                 !.ret = "panic"]
        ELSE LET max == NumFiles(id) - 1
                 index == Scroll(cv.files_state, amount, Some(max))
             IN  [st EXCEPT !.commit_view =
                                Some([cv EXCEPT !.files_state = Some(index),
                                                !.file_view = ShowFile(id, index)])]

\* handle_input with a CommitView open (lines 190-244)
HandleCommitKey(st, key, overflow_checks) ==
    LET cv == Unwrap(st.commit_view)
        WithView(v) == [st EXCEPT !.commit_view = Some(v)]
    IN  CASE key = "n" -> FileStep(st, 1, overflow_checks)
          [] key = "p" -> FileStep(st, 0 - 1, overflow_checks)
          [] key = "Down" ->
                WithView([cv EXCEPT !.message_scroll = SatAddSignedU16(@, 1)])
          [] key = "Up" ->
                WithView([cv EXCEPT !.message_scroll = SatAddSignedU16(@, 0 - 1)])
          [] key = "j" ->
                WithView([cv EXCEPT !.file_view = ScrollFile(@, height, 1)])
          [] key = "k" ->
                WithView([cv EXCEPT !.file_view = ScrollFile(@, height, 0 - 1)])
          [] key \in {"d", "PageDown"} ->
                WithView([cv EXCEPT !.file_view = ScrollFile(@, height, height \div 2)])
          [] key \in {"u", "PageUp"} ->
                WithView([cv EXCEPT !.file_view =
                                        ScrollFile(@, height, 0 - (height \div 2))])
          [] key = "h" -> [st EXCEPT !.popup = Some("commit help")]
          [] key \in {"q", "Esc"} ->
                IF show_only
                THEN [st EXCEPT !.ret = "false"]
                ELSE [st EXCEPT !.commit_view = None]
          [] OTHER -> st

\* handle_input in the log view (lines 246-328)
HandleLogKey(st, key, exec_ok) ==
    LET selected == st.log_state.selected
        Select(i) == [st EXCEPT !.log_state.selected = Some(i)]
    IN  CASE key \in {"j", "Down"} -> Select(Scroll(selected, 1, None))
          [] key \in {"k", "Up"} -> Select(Scroll(selected, 0 - 1, None))
          [] key \in {"d", "PageDown"} ->
                Select(Scroll(selected, height \div 4, None))
          [] key \in {"u", "PageUp"} ->
                Select(Scroll(selected, 0 - (height \div 4), None))
          [] key \in {"g", "Home"} -> Select(0)
          [] key = "1" -> [st EXCEPT !.log_mode = "Short"]
          [] key = "2" -> [st EXCEPT !.log_mode = "Medium"]
          [] key = "3" -> [st EXCEPT !.log_mode = "Long"]
          [] key = "Enter" ->
                IF selected = None
                THEN st
                ELSE LET r == ShowCommit(commit_infos, Unwrap(selected))
                     IN  [st EXCEPT !.commit_view = Some(r.view),
                                    !.ret = IF r.ok THEN "true" ELSE "panic"]
          [] key = "h" -> [st EXCEPT !.popup = Some("log help")]
          [] key = "x" -> [st EXCEPT !.ret = IF exec_ok THEN "exec" ELSE "panic"]
          [] key \in {"q", "Esc"} -> [st EXCEPT !.ret = "false"]
          [] OTHER -> st

\* a variant of HandleInput that clears the popup and then still handles
\* the key
HandleInputNoCapture(key, exec_ok, overflow_checks) ==
    LET st == [RenderState EXCEPT !.popup = None]
    IN  IF st.commit_view # None
        THEN HandleCommitKey(st, key, overflow_checks)
        ELSE HandleLogKey(st, key, exec_ok)

\* fn handle_input
HandleInput(key, exec_ok, overflow_checks) ==
    IF popup # None
    THEN [RenderState EXCEPT !.popup = None]
    ELSE IF commit_view # None
         THEN HandleCommitKey(RenderState, key, overflow_checks)
         ELSE HandleLogKey(RenderState, key, exec_ok)

\* the amount a key asks the log cursor to move down by
ScrollDownAmount(key) ==
    IF key \in {"j", "Down"} THEN 1 ELSE height \div 4

\* the history variable after a key
ScrollReqAfter(key) ==
    IF /\ scroll_req # None
       /\ popup = None
       /\ commit_view = None
       /\ key \in {"j", "Down", "d", "PageDown"}
       /\ Unwrap(scroll_req) + ScrollDownAmount(key) <= MaxReq
    THEN Some(Unwrap(scroll_req) + ScrollDownAmount(key))
    ELSE None

\* a variant of AfterInput in which Ok(false) does not end the session
AfterInputNoQuit(ret) ==
    CASE ret = "true" -> "top"
      [] ret = "false" -> "top"
      [] ret = "panic" -> "panicked"
      [] ret = "exec" -> "exec"

\* the history variable opened_from after a key whose handler left r
OpenedFromAfter(r) ==
    IF commit_view # None
    THEN opened_from
    ELSE IF popup = None /\ r.commit_view # None
         THEN Some([log_state |-> log_state, log_mode |-> log_mode,
                    commit_infos |-> commit_infos])
         ELSE None

\* how the loop goes on after handle_input returned
AfterInput(ret) ==
    CASE ret = "true" -> "top"
      [] ret = "false" -> "done"
      [] ret = "panic" -> "panicked"
      [] ret = "exec" -> "exec"

\* a variant of KeyStep in which dismissing a popup fetches the next commit
KeyStepRetry(key, exec_ok, overflow_checks) ==
    /\ pc = "read"
    /\ event' = "Key"
    /\ LET r == HandleInput(key, exec_ok, overflow_checks)
       IN  /\ log_mode' = r.log_mode
           /\ log_state' = r.log_state
           /\ commit_view' = r.commit_view
           /\ popup' = r.popup
           /\ pc' = AfterInput(r.ret)
           /\ opened_from' = OpenedFromAfter(r)
    /\ IF popup # None /\ IsSome(RevwalkNext(revwalk))
       THEN /\ commit_infos' = Push(commit_infos, Unwrap(RevwalkNext(revwalk)))
            /\ revwalk' = Advance(revwalk)
       ELSE UNCHANGED <<commit_infos, revwalk>>
    /\ scroll_req' = ScrollReqAfter(key)
    /\ UNCHANGED <<scroll_args, L, show_only, height, needed, fetched, fails>>

\* a variant of KeyStep in which a change of the log mode moves the log
\* cursor to the first commit
KeyStepResetCursor(key, exec_ok, overflow_checks) ==
    /\ pc = "read"
    /\ event' = "Key"
    /\ LET r == HandleInput(key, exec_ok, overflow_checks)
       IN  /\ log_mode' = r.log_mode
           /\ log_state' = IF r.log_mode # log_mode
                           THEN [selected |-> Some(0)]
                           ELSE r.log_state
           /\ commit_view' = r.commit_view
           /\ popup' = r.popup
           /\ pc' = AfterInput(r.ret)
           /\ opened_from' = OpenedFromAfter(r)
    /\ scroll_req' = ScrollReqAfter(key)
    /\ UNCHANGED <<scroll_args, L, show_only, height, revwalk, commit_infos,
                   needed, fetched, fails>>

\* a variant of KeyStep in which leaving the show view clears the log cursor
KeyStepForgetCursor(key, exec_ok, overflow_checks) ==
    /\ pc = "read"
    /\ event' = "Key"
    /\ LET r == HandleInput(key, exec_ok, overflow_checks)
       IN  /\ log_mode' = r.log_mode
           /\ log_state' = IF commit_view # None /\ r.commit_view = None
                           THEN [selected |-> None]
                           ELSE r.log_state
           /\ commit_view' = r.commit_view
           /\ popup' = r.popup
           /\ pc' = AfterInput(r.ret)
           /\ opened_from' = OpenedFromAfter(r)
    /\ scroll_req' = ScrollReqAfter(key)
    /\ UNCHANGED <<scroll_args, L, show_only, height, revwalk, commit_infos,
                   needed, fetched, fails>>

\* event::read() returned a key and handle_input handled it (lines 111-119).
\* No path of handle_input returns Err, so line 117 is never taken.
KeyStep(key, exec_ok, overflow_checks) ==
    /\ pc = "read"
    /\ event' = "Key"
    /\ LET r == HandleInput(key, exec_ok, overflow_checks)
       IN  /\ log_mode' = r.log_mode
           /\ log_state' = r.log_state
           /\ commit_view' = r.commit_view
           /\ popup' = r.popup
           /\ pc' = AfterInput(r.ret)
           /\ opened_from' = OpenedFromAfter(r)
    /\ scroll_req' = ScrollReqAfter(key)
    /\ UNCHANGED <<scroll_args, L, show_only, height, revwalk, commit_infos, needed,
                   fetched, fails>>

\* event::read() returned an event that is no key (a resize): `if let
\* Event::Key` does not match and the loop goes round
OtherEvent ==
    /\ pc = "read"
    /\ event' = "Resize"
    /\ pc' = "top"
    /\ scroll_req' = None
    /\ UNCHANGED <<opened_from, scroll_args, L, show_only, height, revwalk, commit_infos, log_mode,
                   log_state, commit_view, popup, needed, fetched, fails>>

\* the terminal is resized; the session sees it where it next asks for the
\* size (line 91, the draw, line 112)
Resize ==
    /\ pc \in {"top", "draw", "read"}
    /\ height' \in Heights \ {height}
    /\ scroll_req' = None
    /\ UNCHANGED <<opened_from, scroll_args, L, show_only, revwalk, commit_infos, log_mode, log_state,
                   commit_view, popup, needed, fetched, event, fails, pc>>

\* term.size()?, term.draw(..)? or event::read()? fails: run_app returns Err
SurfaceError ==
    /\ pc \in {"top", "draw", "read"}
    /\ pc' = "failed"
    /\ UNCHANGED <<opened_from, scroll_args, L, show_only, height, revwalk, commit_infos, log_mode,
                   log_state, commit_view, popup, needed, fetched, event,
                   fails, scroll_req>>

\* whether `git log` could be exec'ed matters to the `x` key only, and
\* whether the build checks overflow to the `n` and `p` keys only
ExecOutcomes(key) == IF key = "x" THEN BOOLEAN ELSE {TRUE}
BuildsFor(key) == IF key \in {"n", "p"} THEN BOOLEAN ELSE {TRUE}

Next ==
    \/ Top
    \/ FetchSome
    \/ FetchNone
    \/ FetchErr
    \/ AutoShow
    \/ Draw
    \/ \E key \in Keys :
          \E exec_ok \in ExecOutcomes(key), overflow_checks \in BuildsFor(key) :
             KeyStep(key, exec_ok, overflow_checks)
    \/ OtherEvent
    \/ Resize
    \/ SurfaceError

Spec == Init /\ [][Next]_vars

TypeOK ==
    /\ L \in 1..MaxL
    /\ height \in Heights
    /\ revwalk.pos \in 0..L
    /\ Len(commit_infos) <= revwalk.pos
    /\ log_mode \in {"Short", "Medium", "Long"}
    /\ needed \in Nat
    /\ fails \in 0..MaxFails
    /\ pc \in {"top", "fetch", "show", "draw", "read",
               "done", "failed", "panicked", "exec"}


(***************************************************************************)
(* fn scroll on its own: a ListState is moved by calls of scroll whose     *)
(* arguments range over every cursor, every bound and amounts out to the   *)
(* ends of i16.  Nothing else of the session moves.                        *)
(***************************************************************************)
Cursors == {None} \cup {Some(i) : i \in 0..MaxIndex}
Maxes == {None} \cup {Some(m) : m \in 0..MaxIndex}
Amounts == {I16Min, I16Max} \cup ((0 - (MaxIndex + 1))..(MaxIndex + 1))

ScrollInit ==
    /\ L = 1
    /\ show_only = FALSE
    /\ height = MinHeight
    /\ revwalk = [pos |-> 0]
    /\ commit_infos = << >>
    /\ log_mode = "Short"
    /\ log_state \in [selected : Cursors]
    /\ commit_view = None
    /\ popup = None
    /\ needed = 0
    /\ fetched = [tag |-> "NotCalled", msg |-> ""]
    /\ event = "NoEvent"
    /\ fails = 0
    /\ pc = "scroll"
    /\ scroll_req = None
    /\ scroll_args \in [amount : Amounts, max : Maxes]
    /\ opened_from = None

\* scroll(&mut list_state, amount, max)
ScrollCall ==
    /\ pc = "scroll"
    /\ log_state' = [selected |->
                        Some(Scroll(log_state.selected, scroll_args.amount,
                                    scroll_args.max))]
    /\ pc' = "scrolled"
    /\ UNCHANGED <<opened_from, scroll_args, L, show_only, height, revwalk, commit_infos,
                   log_mode, commit_view, popup, needed, fetched, event,
                   fails, scroll_req>>

\* the next call's arguments; the list state is the one the last call left
ScrollAgain ==
    /\ pc = "scrolled"
    /\ Unwrap(log_state.selected) <= MaxIndex
    /\ scroll_args' \in [amount : Amounts, max : Maxes]
    /\ pc' = "scroll"
    /\ UNCHANGED <<opened_from, L, show_only, height, revwalk, commit_infos, log_mode,
                   log_state, commit_view, popup, needed, fetched, event,
                   fails, scroll_req>>

ScrollNext ==
    \/ ScrollCall
    \/ ScrollAgain

ScrollSpec == ScrollInit /\ [][ScrollNext]_vars


(***************************************************************************)
(* A session in the log view whose user does nothing but scroll down: not  *)
(* in show mode, the provider never fails, the terminal works, and every   *)
(* key is `j` or Down.  The loop is a sequential program, so a step of it  *)
(* that can be taken is taken (weak fairness of the loop's own steps); the *)
(* user keeps pressing the key (weak fairness of the key step).  The       *)
(* terminal may be resized at any time.                                    *)
(***************************************************************************)
LiveInit == Init /\ ~show_only

\* the user presses a scroll-down key of the log view
ScrollDownKey == \E key \in {"j", "Down"} : KeyStep(key, TRUE, TRUE)

\* the steps the loop takes by itself
LoopStep ==
    \/ Top
    \/ FetchSome
    \/ FetchNone
    \/ AutoShow
    \/ Draw

LiveNext ==
    \/ Top
    \/ FetchSome
    \/ FetchNone
    \/ AutoShow
    \/ Draw
    \/ ScrollDownKey
    \/ Resize

LiveSpec ==
    /\ LiveInit
    /\ [][LiveNext]_vars
    /\ WF_vars(LoopStep)
    /\ WF_vars(ScrollDownKey)


(***************************************************************************)
(* Properties.                                                             *)
(***************************************************************************)
\* the backing history in the revwalk's order
ProviderSequence == [i \in 1..L |-> i]

\* a step in which the loop took an event off event::read() and went on
EventHandled == pc = "read" /\ pc' \notin {"read", "failed"}

\* such a step in which the event was a key, so that handle_input ran
KeyHandled == EventHandled /\ event' = "Key"

\* the provider's error popup is on screen
ErrorPopup == popup # None /\ Unwrap(popup) \in ErrMsgs

\* C1: a fill pulls records one at a time towards
\* target_len = height/2 + selected index (1 in show mode), leaves the loop
\* only when the buffer has reached the target or the provider reported
\* exhaustion or a failure, and after it the buffer is a prefix of the
\* provider's record sequence, in the provider's order.
C1_FillStopsAndPrefix ==
    [][ /\ (pc = "top" /\ pc' \in {"fetch", "show"}) =>
              needed' = IF show_only
                        THEN 1
                        ELSE height \div 2 + UnwrapOrDefault(log_state.selected)
        /\ Len(commit_infos') <= Len(commit_infos) + 1
        /\ (pc = "top" /\ pc' = "show") => Len(commit_infos) >= needed'
        /\ (pc = "fetch" /\ pc' = "show") =>
              \/ Len(commit_infos') >= needed
              \/ fetched'.tag \in {"None", "Err"}
        /\ pc' = "show" => IsPrefix(commit_infos', ProviderSequence)
      ]_vars

\* C1 without its last part: how a fill proceeds and when it stops
C1_FillStops ==
    [][ /\ (pc = "top" /\ pc' \in {"fetch", "show"}) =>
              needed' = IF show_only
                        THEN 1
                        ELSE height \div 2 + UnwrapOrDefault(log_state.selected)
        /\ Len(commit_infos') <= Len(commit_infos) + 1
        /\ (pc = "top" /\ pc' = "show") => Len(commit_infos) >= needed'
        /\ (pc = "fetch" /\ pc' = "show") =>
              \/ Len(commit_infos') >= needed
              \/ fetched'.tag \in {"None", "Err"}
      ]_vars

\* C2: in every step of the session the history buffer is only appended to
\* (what it held stays, in place and unchanged) and never holds more than
\* the L records of the backing history.
C2_AppendOnly ==
    [][IsPrefix(commit_infos, commit_infos') /\ Len(commit_infos') <= L]_vars

\* the whole history is buffered and a key is awaited in the show view of a
\* log session, under a popup
C2_Witness ==
    /\ pc = "read"
    /\ ~show_only
    /\ L >= 2
    /\ Len(commit_infos) = L
    /\ commit_view # None
    /\ popup # None

\* C3 as stated: after scroll-downs requesting k in total (and nothing
\* else, no provider failure), the fill leaves min(k + height/2, L) records.
C3_TotalRequested ==
    (pc = "show" /\ scroll_req # None) =>
        Len(commit_infos) = Min(Unwrap(scroll_req) + height \div 2, L)

\* C3, amended: after scroll-downs only (no provider failure), the fill
\* leaves min(i + height/2, L) records, i being the index the scrolls left
\* the log cursor on (0 when nothing is selected), and never more than L.
C3_CursorIndex ==
    (pc = "show" /\ scroll_req # None) =>
        /\ Len(commit_infos) =
              Min(UnwrapOrDefault(log_state.selected) + height \div 2, L)
        /\ Len(commit_infos) <= L

\* scroll-downs alone have asked for more than the history holds, and the
\* fill has stopped at the history's end
C3_Witness ==
    /\ pc = "show"
    /\ scroll_req # None
    /\ Unwrap(scroll_req) >= 2
    /\ L >= 2
    /\ UnwrapOrDefault(log_state.selected) + height \div 2 > L
    /\ Len(commit_infos) = L

\* C4: a failing provider call ends the fill of that frame, sets a popup
\* with the failure's message, and appends nothing.
C4_FailureStopsFill ==
    [][fails' > fails =>
          /\ pc' = "show"
          /\ fetched'.tag = "Err"
          /\ popup' = Some(fetched'.msg)
          /\ commit_infos' = commit_infos
      ]_vars

\* a fill that had appended a record has just been ended by a failure
C4_Witness ==
    /\ pc = "show"
    /\ fetched.tag = "Err"
    /\ popup = Some(fetched.msg)
    /\ Len(commit_infos) >= 1
    /\ Len(commit_infos) < needed

\* C5: the session never aborts on a provider failure: it is never found
\* panicked with the provider's error popup set.
C5_FailureNeverFatal == ~(pc = "panicked" /\ ErrorPopup)

\* C6 as stated: once the provider has reported exhaustion it is never
\* asked for a record again.
C6_NeverAskedAgain == fetched.tag = "None" => pc # "fetch"

\* C6, amended: once the provider has reported exhaustion the buffer never
\* grows again; the provider may be asked again and reports exhaustion again.
C6_NoGrowthAfterExhaustion ==
    [][fetched.tag = "None" =>
          /\ commit_infos' = commit_infos
          /\ revwalk' = revwalk
          /\ fetched'.tag = "None"
      ]_vars

\* after the exhaustion a key was handled and a later fill, still short of
\* its target, has ended
C6_Witness ==
    /\ pc = "show"
    /\ fetched.tag = "None"
    /\ event = "Key"
    /\ Len(commit_infos) < needed

\* C7: with all L records buffered, no step changes the buffer, and a fill
\* (the provider asked again after a scroll-down) sets no popup.
C7_ExhaustionNoError ==
    [][Len(commit_infos) = L =>
          /\ commit_infos' = commit_infos
          /\ pc = "fetch" => popup' = popup
      ]_vars

\* the log cursor was moved past the buffered history by a key and the fill
\* that followed has ended with the buffer at L and no popup
C7_Witness ==
    /\ pc = "show"
    /\ ~show_only
    /\ event = "Key"
    /\ Len(commit_infos) = L
    /\ IsSome(log_state.selected)
    /\ Unwrap(log_state.selected) >= L
    /\ fetched.tag = "None"
    /\ popup = None

\* C8 as stated: after a failed fetch the provider is not asked again
\* unless the fill target has grown (the user scrolled further).
C8_NoRetryWithoutScroll ==
    [][(pc = "top" /\ fetched.tag = "Err" /\ Needed <= needed) =>
          pc' # "fetch"]_vars

\* C8, amended: from the failure to the end of that frame's input handling
\* nothing touches the buffer or the revwalk, and the key that is handled
\* under the popup clears it; the provider is asked again by the fill of
\* the next loop iteration whenever the buffer is short of the target.
C8_NoRetryWithinFrame ==
    [][ /\ pc \in {"show", "draw", "read"} =>
              /\ commit_infos' = commit_infos
              /\ revwalk' = revwalk
        /\ (KeyHandled /\ popup # None) => popup' = None
      ]_vars

\* the key that cleared the error popup has been handled and the next
\* iteration is about to ask the provider again, the target unchanged
C8_Witness ==
    /\ pc = "fetch"
    /\ fetched.tag = "Err"
    /\ event = "Key"
    /\ popup = None
    /\ ~show_only
    /\ needed = height \div 2 + UnwrapOrDefault(log_state.selected)
    /\ Len(commit_infos) >= 1

\* a step that leaves the views and the session as they are
ViewUnchanged ==
    /\ commit_view' = commit_view
    /\ log_state' = log_state
    /\ log_mode' = log_mode
    /\ commit_infos' = commit_infos

\* C9 as stated: under a popup, the next event of any kind clears the
\* popup, changes nothing else, and does not end the session.
C9_AnyEventClears ==
    [][(EventHandled /\ popup # None) =>
          /\ popup' = None
          /\ ViewUnchanged
          /\ pc' = "top"
      ]_vars

\* C9, amended: under a popup, the next key event of any kind clears the
\* popup, changes nothing else, and does not end the session.
C9_AnyKeyClears ==
    [][(KeyHandled /\ popup # None) =>
          /\ popup' = None
          /\ ViewUnchanged
          /\ pc' = "top"
      ]_vars

\* the provider's error popup was set (a call has failed) and is gone: only
\* handle_input, run for a key, clears a popup
C9_Witness ==
    /\ pc = "top"
    /\ event = "Key"
    /\ fails > 0
    /\ popup = None
    /\ commit_view = None
    /\ IsSome(log_state.selected)

\* C10: whenever a CommitView is open, its index is inside the buffer.
C10_DetailIndexInBuffer ==
    commit_view # None => Unwrap(commit_view).index < Len(commit_infos)

\* the show view is open on a record of the buffer
DetailOpen ==
    /\ commit_view # None
    /\ Unwrap(commit_view).index < Len(commit_infos)

\* the identity of the record the show view is open on
DetailRecord == commit_infos[Unwrap(commit_view).index + 1]

\* C11: in every reachable state with the show view open, a selected file
\* cursor is below the number of file changes of the record shown (so `n`
\* and `p` keep it within 0..N-1 and never wrap).
C11_FileCursorInRange ==
    (DetailOpen /\ IsSome(Unwrap(commit_view).files_state))
        => Unwrap(Unwrap(commit_view).files_state) < NumFiles(DetailRecord)

\* the part of C11 about records with at least one file change
C11_RangeWhenFiles ==
    (DetailOpen /\ IsSome(Unwrap(commit_view).files_state)
                /\ NumFiles(DetailRecord) >= 1)
        => Unwrap(Unwrap(commit_view).files_state) < NumFiles(DetailRecord)

\* the file cursor reached the last of several files
C11_LastFileReached ==
    /\ DetailOpen
    /\ NumFiles(DetailRecord) >= 2
    /\ Unwrap(commit_view).files_state = Some(NumFiles(DetailRecord) - 1)

\* the CommitView of the show view, and its FileView
DetailView == Unwrap(commit_view)
DetailFile == Unwrap(Unwrap(commit_view).file_view)

\* the largest offset into content_height lines that still fills a pane of
\* viewport_height rows
MaxOffset(content_height, viewport_height) ==
    Max(0, content_height - viewport_height)

\* the keys of the show view that call scroll_file
FileScrollKeys == {"j", "k", "d", "u", "PageDown", "PageUp"}

\* C12, as stated: in every reachable state each scroll offset of the show
\* view lies within 0..max(0, content_height - viewport_height) of the pane
\* it scrolls, the pane being the one some layout of the current terminal
\* height gives.
C12_OffsetsWithinPane ==
    DetailOpen =>
        \E horizontal \in BOOLEAN :
            /\ DetailView.message_scroll
                   \in 0..MaxOffset(MsgLines(DetailRecord),
                                    MessagePaneHeight(height, horizontal))
            /\ DetailView.file_view # None =>
                   DetailFile.scroll
                       \in 0..MaxOffset(FileHeight(DetailFile.contents[1],
                                                   DetailFile.contents[2]),
                                        FilePaneHeight(height, horizontal))

\* C12, amended: the offsets are clamped where the code clamps them.  A
\* draw leaves message_scroll within 0..max(0, line_count - height of the
\* message pane it drew); a key that scrolls the file leaves the FileView's
\* scroll within 0..max(0, content_height - terminal height / 3); and the
\* FileView's scroll never exceeds its content_height.
C12_OffsetsClampedWhenUsed ==
    [][ /\ (pc = "draw" /\ pc' = "read" /\ commit_view' # None) =>
               \E horizontal \in BOOLEAN :
                   Unwrap(commit_view').message_scroll
                       \in 0..MaxOffset(MsgLines(DetailRecord),
                                        MessagePaneHeight(height, horizontal))
        /\ (pc = "read" /\ popup = None /\ DetailOpen) =>
               \A key \in FileScrollKeys :
                   LET fv == Unwrap(HandleInput(key, TRUE, TRUE).commit_view).file_view
                   IN  fv # None =>
                          Unwrap(fv).scroll
                              \in 0..MaxOffset(FileHeight(Unwrap(fv).contents[1],
                                                          Unwrap(fv).contents[2]),
                                               height \div 3)
        /\ (DetailOpen /\ DetailView.file_view # None) =>
               DetailFile.scroll \in 0..FileHeight(DetailFile.contents[1],
                                                   DetailFile.contents[2])
      ]_vars

\* a frame was drawn with both offsets above 0 and the FileView's scroll at
\* its maximum
C12_Witness ==
    /\ pc = "read"
    /\ DetailOpen
    /\ DetailView.message_scroll > 0
    /\ DetailView.file_view # None
    /\ DetailFile.scroll > 0
    /\ DetailFile.scroll = FileHeight(DetailFile.contents[1],
                                      DetailFile.contents[2]) - height \div 3

\* C13: a call of scroll always selects an index; the index is never
\* negative and never beyond the plain sum (no wrap-around), for every
\* cursor and every amount out to the ends of i16; with a bound it is at
\* most the bound; with no index selected before, it is 0.
C13_ScrollInBounds ==
    [][ (pc = "scroll" /\ pc' = "scrolled") =>
            /\ IsSome(log_state'.selected)
            /\ Unwrap(log_state'.selected) >= 0
            /\ scroll_args.max # None =>
                   Unwrap(log_state'.selected) <= Unwrap(scroll_args.max)
            /\ log_state.selected # None =>
                   Unwrap(log_state'.selected)
                       <= Unwrap(log_state.selected) + Max(scroll_args.amount, 0)
            /\ log_state.selected = None => Unwrap(log_state'.selected) = 0
      ]_vars

\* a call with the largest amount was held at its bound, below the sum
C13_Witness ==
    /\ pc = "scrolled"
    /\ scroll_args.amount = I16Max
    /\ scroll_args.max = Some(MaxIndex - 1)
    /\ log_state.selected = Some(MaxIndex - 1)

\* the log view is on screen, with no popup, and the session waits for a key
LogReady == pc = "read" /\ popup = None /\ commit_view = None

\* the log mode a density key asks for
DensityOf(key) ==
    CASE key = "1" -> "Short"
      [] key = "2" -> "Medium"
      [] key = "3" -> "Long"

\* C14: in the log view each density key sets the log mode and nothing
\* else: the log cursor (no selection included) is the same after the key,
\* the view is still the log view, and the session goes on.
C14_DensityOnly ==
    [][ /\ LogReady =>
               \A key \in {"1", "2", "3"} :
                   LET r == HandleInput(key, TRUE, TRUE)
                   IN  /\ r.log_mode = DensityOf(key)
                       /\ r.log_state = log_state
                       /\ r.commit_view = None
                       /\ r.popup = None
                       /\ r.ret = "true"
        /\ (LogReady /\ KeyHandled /\ log_mode' # log_mode) =>
               /\ log_state' = log_state
               /\ commit_view' = None
               /\ popup' = None
               /\ commit_infos' = commit_infos
               /\ pc' = "top"
      ]_vars

\* the log mode was changed with the log cursor on the second commit
C14_Witness ==
    /\ pc = "top"
    /\ event = "Key"
    /\ commit_view = None
    /\ log_mode = "Long"
    /\ log_state.selected = Some(1)

\* the log view waits for a key with the cursor on a commit
LogReadyOn(i) == LogReady /\ log_state.selected = Some(i)

\* C15, as stated: Enter in the log view with the cursor on i opens the
\* show view on i with message_scroll 0; if commit i has a file change, the
\* file cursor is on 0 and a FileView of the first file, scroll 0, is there.
C15_OpensFirstFile ==
    \A i \in 0..MaxL :
        LogReadyOn(i) =>
            LET r == HandleInput("Enter", TRUE, TRUE)
                id == commit_infos[i + 1]
            IN  /\ r.ret = "true"
                /\ r.commit_view # None
                /\ Unwrap(r.commit_view).index = i
                /\ Unwrap(r.commit_view).message_scroll = 0
                /\ NumFiles(id) >= 1 =>
                       /\ Unwrap(r.commit_view).files_state = Some(0)
                       /\ Unwrap(r.commit_view).file_view
                              = Some([contents |-> <<id, 0>>, scroll |-> 0])

\* C15, amended: as C15, but the FileView of the first file is there only
\* if that file change is not a deletion; for a deleted first file the
\* cursor is on 0 and there is no FileView.  The key step leaves the view
\* the handler made, and the session goes on.
C15_OpensFirstFileUnlessDeleted ==
    [][ \A i \in 0..MaxL :
            /\ LogReadyOn(i) =>
                   LET r == HandleInput("Enter", TRUE, TRUE)
                       id == commit_infos[i + 1]
                   IN  /\ r.ret = "true"
                       /\ r.commit_view # None
                       /\ Unwrap(r.commit_view).index = i
                       /\ Unwrap(r.commit_view).message_scroll = 0
                       /\ NumFiles(id) >= 1 =>
                              /\ Unwrap(r.commit_view).files_state = Some(0)
                              /\ Unwrap(r.commit_view).file_view
                                     = IF Deleted(id, 0)
                                       THEN None
                                       ELSE Some([contents |-> <<id, 0>>,
                                                  scroll |-> 0])
            /\ (LogReadyOn(i) /\ KeyHandled /\ commit_view' # None) =>
                   /\ Unwrap(commit_view').index = i
                   /\ Unwrap(commit_view').message_scroll = 0
                   /\ pc' = "top"
      ]_vars

\* Enter opened the second commit, whose first file is deleted: the file
\* cursor is on 0 and there is no FileView
C15_Witness ==
    /\ pc = "top"
    /\ event = "Key"
    /\ ~show_only
    /\ DetailOpen
    /\ DetailRecord = 2
    /\ DetailView.message_scroll = 0
    /\ DetailView.files_state = Some(0)
    /\ DetailView.file_view = None

\* C16: opening a commit with no file change leaves the show view on it
\* with no FileView and no file selected, and message_scroll 0; the draw
\* that follows keeps it so.
C16_NoFilesNoFileView ==
    [][ /\ \A i \in 0..MaxL :
               (LogReadyOn(i) /\ NumFiles(commit_infos[i + 1]) = 0) =>
                   LET r == HandleInput("Enter", TRUE, TRUE)
                   IN  /\ r.ret = "true"
                       /\ r.commit_view
                              = Some([index |-> i, message_scroll |-> 0,
                                      files_state |-> None, file_view |-> None])
        /\ (commit_view = None /\ commit_view' # None
              /\ Unwrap(commit_view').index < Len(commit_infos)
              /\ NumFiles(commit_infos[Unwrap(commit_view').index + 1]) = 0) =>
               /\ Unwrap(commit_view').files_state = None
               /\ Unwrap(commit_view').file_view = None
        /\ (pc = "draw" /\ pc' = "read" /\ DetailOpen
              /\ NumFiles(DetailRecord) = 0
              /\ DetailView.files_state = None) =>
               /\ Unwrap(commit_view').files_state = None
               /\ Unwrap(commit_view').file_view = None
      ]_vars

\* a commit with no file change is open and drawn
C16_Witness ==
    /\ pc = "read"
    /\ DetailOpen
    /\ NumFiles(DetailRecord) = 0
    /\ DetailView.files_state = None
    /\ DetailView.file_view = None

\* the show view waits for a key, with no popup
DetailReady == pc = "read" /\ popup = None /\ DetailOpen

\* the file keys of the show view and the way each moves the file cursor
FileKeys == {"n", "p"}
FileKeyAmount(key) == IF key = "n" THEN 1 ELSE 0 - 1

\* the show view waits for a key on a commit with files, the cursor on i
FileReadyOn(i) ==
    /\ DetailReady
    /\ NumFiles(DetailRecord) >= 1
    /\ DetailView.files_state = Some(i)

\* where a file key takes the cursor from i
FileTarget(i, key) == Clamp(i + FileKeyAmount(key), 0, NumFiles(DetailRecord) - 1)

\* v is the view of file f of the commit shown as show_file leaves it: none
\* for a deleted file, else the file's text at scroll 0
IsFreshFileView(v, f) ==
    IF Deleted(DetailRecord, f)
    THEN v = None
    ELSE v = Some([contents |-> <<DetailRecord, f>>, scroll |-> 0])

\* C17, as stated: a file key that moves the cursor replaces the FileView
\* by the new file's at scroll 0; a file key held at an end of the list
\* changes nothing, FileView and its scroll included.
C17_KeptWhenClamped ==
    \A i \in 0..MaxL, key \in FileKeys :
        FileReadyOn(i) =>
            LET r == HandleInput(key, TRUE, TRUE)
                target == FileTarget(i, key)
            IN  /\ r.ret = "true"
                /\ r.commit_view # None
                /\ Unwrap(r.commit_view).files_state = Some(target)
                /\ target # i =>
                       IsFreshFileView(Unwrap(r.commit_view).file_view, target)
                /\ target = i => r.commit_view = commit_view

\* C17, amended: every file key, held at an end or not, replaces the
\* FileView by the view of the file the cursor is then on, at scroll 0
\* (none for a deleted file); record index and message_scroll stay.
C17_AlwaysReplaced ==
    \A i \in 0..MaxL, key \in FileKeys :
        FileReadyOn(i) =>
            LET r == HandleInput(key, TRUE, TRUE)
                target == FileTarget(i, key)
            IN  /\ r.ret = "true"
                /\ r.commit_view # None
                /\ Unwrap(r.commit_view).files_state = Some(target)
                /\ IsFreshFileView(Unwrap(r.commit_view).file_view, target)
                /\ Unwrap(r.commit_view).index = DetailView.index
                /\ Unwrap(r.commit_view).message_scroll = DetailView.message_scroll

\* the cursor is on the last file, whose view is scrolled: the next-file key
\* is held at the end here
C17_Witness ==
    /\ DetailReady
    /\ NumFiles(DetailRecord) >= 1
    /\ DetailView.files_state = Some(NumFiles(DetailRecord) - 1)
    /\ DetailView.file_view # None
    /\ DetailFile.scroll > 0

\* the keys that leave a view
QuitKeys == {"q", "Esc"}

\* C18: with no popup, q/Esc in the show view goes back to the log view
\* outside show mode and ends the session (with success) in show mode;
\* q/Esc in the log view ends the session with success; no other key of
\* either view changes the view, but Enter in the log view.
C18_ViewTransitions ==
    [][ /\ DetailReady =>
               \A key \in Keys :
                   \A exec_ok \in ExecOutcomes(key),
                      overflow_checks \in BuildsFor(key) :
                       LET r == HandleInput(key, exec_ok, overflow_checks)
                       IN  IF key \in QuitKeys
                           THEN IF show_only
                                THEN AfterInput(r.ret) = "done"
                                ELSE /\ r.commit_view = None
                                     /\ AfterInput(r.ret) = "top"
                           ELSE r.commit_view # None
        /\ LogReady =>
               \A key \in Keys :
                   \A exec_ok \in ExecOutcomes(key),
                      overflow_checks \in BuildsFor(key) :
                       LET r == HandleInput(key, exec_ok, overflow_checks)
                       IN  IF key \in QuitKeys
                           THEN AfterInput(r.ret) = "done"
                           ELSE key # "Enter" => r.commit_view = None
        /\ (DetailReady /\ KeyHandled /\ commit_view' = None) =>
               ~show_only /\ pc' = "top"
        /\ (DetailReady /\ KeyHandled /\ pc' = "done") => show_only
        /\ (LogReady /\ KeyHandled /\ commit_view' # None) =>
               /\ log_state.selected # None
               /\ Unwrap(commit_view').index = Unwrap(log_state.selected)
      ]_vars

\* q or Esc ended a session in show mode from the show view
C18_Witness ==
    /\ pc = "done"
    /\ event = "Key"
    /\ show_only
    /\ DetailOpen
    /\ popup = None

\* a step that draws a frame
DrawStep == pc = "draw" /\ pc' = "read"

C20_EventuallyAll == <>(Len(commit_infos) = L)

\* the longest history is all in the buffer, the cursor on its last commit
C20_Witness ==
    /\ L = MaxL
    /\ Len(commit_infos) = L
    /\ log_state.selected = Some(L - 1)
    /\ pc = "read"

\* C21: in the show view of a commit with no file change the file keys do
\* no harm: the handler returns normally (the session goes on), no file is
\* selected, there is no FileView, and record index and message_scroll are
\* as before, whichever way the build treats overflow.
C21_FileKeysHarmless ==
    (DetailReady /\ NumFiles(DetailRecord) = 0) =>
        \A key \in FileKeys, overflow_checks \in BOOLEAN :
            LET r == HandleInput(key, TRUE, overflow_checks)
            IN  /\ r.ret = "true"
                /\ r.commit_view # None
                /\ Unwrap(r.commit_view).files_state = None
                /\ Unwrap(r.commit_view).file_view = None
                /\ Unwrap(r.commit_view).index = DetailView.index
                /\ Unwrap(r.commit_view).message_scroll = DetailView.message_scroll

\* a file key was pressed on a commit with no file change: the session has
\* panicked with the show view open on that commit
C21_PanicOnNoFiles ==
    /\ pc = "panicked"
    /\ event = "Key"
    /\ DetailOpen
    /\ NumFiles(DetailRecord) = 0

\* C22: once q or Esc has brought the session back from the show view Enter
\* opened, and until the next key is handled in the log view, the log
\* cursor and the log mode are those of the moment Enter was pressed, and
\* the buffer starts with the commits it held then, whatever keys, popups,
\* draws and resizes came in between.
C22_RoundTrip ==
    (commit_view = None /\ opened_from # None) =>
        /\ log_state = Unwrap(opened_from).log_state
        /\ log_mode = Unwrap(opened_from).log_mode
        /\ IsPrefix(Unwrap(opened_from).commit_infos, commit_infos)

\* the session is back in the log view from a show view during which the
\* buffer grew; the cursor is on the second commit, the mode is Long
C22_Witness ==
    /\ pc = "top"
    /\ event = "Key"
    /\ commit_view = None
    /\ opened_from # None
    /\ log_state.selected = Some(1)
    /\ log_mode = "Long"
    /\ Len(commit_infos) > Len(Unwrap(opened_from).commit_infos)

\* C23: in a session started in show mode, whenever a frame is drawn or an
\* event is awaited the show view is open on commit index 0; the fill
\* target is never above 1 and the buffer never holds more than one
\* commit; the log view (no CommitView) exists only before the first
\* automatic open, when no event has been read yet.
C23_ShowModeNeverLog ==
    show_only =>
        /\ pc \in {"draw", "read"} =>
               /\ commit_view # None
               /\ Unwrap(commit_view).index = 0
        /\ needed <= 1
        /\ Len(commit_infos) <= 1
        /\ commit_view = None =>
               /\ event = "NoEvent"
               /\ pc \in {"top", "fetch", "show", "failed"}

\* a key was handled in show mode, after a FileView was scrolled, and the
\* session goes on with the show view on commit 0
C23_Witness ==
    /\ show_only
    /\ pc = "top"
    /\ event = "Key"
    /\ DetailOpen
    /\ DetailView.index = 0
    /\ DetailView.file_view # None
    /\ DetailFile.scroll > 0
    /\ Len(commit_infos) = 1

====
